---- MODULE Spec2Model ----
(***************************************************************************)
(* State-machine model of the generate-quiz edge function                   *)
(* (src/app/supabase/functions/generate-quiz/index.ts, lines 1-570): the    *)
(* HTTP handler, the seven graph nodes, the routing edges, the checkpoint   *)
(* store (SupabaseSaver) and the quizzes table.  The graph executor is the  *)
(* LangGraph runtime the code compiles the workflow with: it runs one node  *)
(* per step, writes a checkpoint after every node that returns, stops       *)
(* without a checkpoint when a node calls interrupt() with no resume value, *)
(* and lets a node's exception escape from invoke().                        *)
(***************************************************************************)
EXTENDS Integers, Sequences, FiniteSets, TLC

\* ---------------------------------------------------------------- bounds
MaxEntries == 4  \* entries of request bodies, over all requests
MaxJobs == 2     \* jobs created
MaxFaults == 1   \* failures of the environment (store, network, worker), over all jobs
MaxPuts == 3     \* direct calls of SupabaseSaver.put
\* greatest options.limit of a call of list
MaxLimit == 3
MaxClock == 3    \* greatest value of Date.now()

\* ------------------------------------------------------------- constants
None == "none"
NoQuiz == 0
NoCheckpoint == 0
Dash == 0
END == "__end__"

\* user.id values, as character strings; UserA is a string prefix of UserB
UserA == <<1>>
UserB == <<1, 1>>
UserIds == {UserA, UserB}
NoUser == <<>>

\* `${user.id}-${Date.now()}`
NewThreadId(uid, t) == uid \o <<Dash, t>>

\* String.prototype.startsWith
StartsWith(s, p) == Len(p) <= Len(s) /\ SubSeq(s, 1, Len(p)) = p

VARIABLES
  store,       \* rows of the checkpoints table
  quizzes,     \* rows of the quizzes table, indexed by id
  runs,        \* invocations of the compiled graph in flight, by thread id
  req,         \* the handler's position and locals, per request slot
  now,         \* Date.now()
  nent,        \* body entries received so far, over all requests
  lastResp,    \* the last HTTP response sent, until the next request arrives
  reported,    \* last status reported to the owner of a job, per thread id
  dispatched,  \* number of worker dispatches started, per thread id
  faults,      \* failures of the environment so far
  puts,        \* the rows put on the saver directly, in order
  racers,      \* invocations of requests handled at the same time, per slot
  client       \* the polling client of one browser tab (QuizJobProvider)

vars == <<store, quizzes, runs, req, now, nent, lastResp, reported, dispatched,
          faults, puts, racers, client>>

Slots == {1, 2}

\* ------------------------------------------------------- request inputs
\* body.new_quiz after NewQuizSchema defaults; word_list_ids is kept as
\* "is the list non-empty"
NewQuizInputs ==
  { [word_list_ids |-> FALSE, language |-> "dutch", article_url |-> None,
     article_text |-> None, article_title |-> None],
    [word_list_ids |-> FALSE, language |-> "dutch", article_url |-> None,
     article_text |-> "text", article_title |-> "title"],
    [word_list_ids |-> FALSE, language |-> "dutch", article_url |-> None,
     article_text |-> "text", article_title |-> None],
    [word_list_ids |-> TRUE, language |-> "dutch", article_url |-> None,
     article_text |-> None, article_title |-> None],
    [word_list_ids |-> FALSE, language |-> "dutch", article_url |-> "url",
     article_text |-> None, article_title |-> None],
    [word_list_ids |-> FALSE, language |-> "english", article_url |-> None,
     article_text |-> None, article_title |-> None] }

NoData == [word_list_ids |-> FALSE, language |-> None, article_url |-> None,
           article_text |-> None, article_title |-> None]

\* the .refine() of NewQuizSchema
SchemaValid(d) == (d.article_text = None) \/ (d.article_title # None)

BatchInputs == {d \in NewQuizInputs : d.word_list_ids \/ ~SchemaValid(d)}

\* resume values: the sentinel 'poll', or a worker payload
Poll == [kind |-> "poll", quiz_id |-> NoQuiz, user_id |-> NoUser, exercises |-> None]
Payload(q, u) == [kind |-> "payload", quiz_id |-> q, user_id |-> u, exercises |-> "exercises"]

\* ------------------------------------------------------------ AgentState
InitialState(d, uid, tid) ==
  [user_id |-> uid, thread_id |-> tid,
   word_list_ids |-> d.word_list_ids, language |-> d.language,
   article_url |-> d.article_url, article_text |-> d.article_text,
   article_title |-> d.article_title,
   target_words |-> None, quiz_id |-> NoQuiz,
   generated_quiz |-> None, error |-> None]

EmptyValues ==
  [user_id |-> NoUser, thread_id |-> NoUser,
   word_list_ids |-> FALSE, language |-> None,
   article_url |-> None, article_text |-> None, article_title |-> None,
   target_words |-> None, quiz_id |-> NoQuiz,
   generated_quiz |-> None, error |-> None]

\* a node's partial state merged into the channels
Merge(values, delta) ==
  [k \in DOMAIN values |-> IF k \in DOMAIN delta THEN delta[k] ELSE values[k]]

EmptyDelta == [k \in {} |-> None]

\* ------------------------------------------------------ checkpoint store
ThreadRows(S, tid) == {c \in S : c.thread_id = tid}

\* a getTuple that orders by checkpoint_id ascending: the first checkpoint
GetTupleOldest(S, tid) ==
  CHOOSE c \in ThreadRows(S, tid) :
    \A d \in ThreadRows(S, tid) : c.checkpoint_id <= d.checkpoint_id

\* SupabaseSaver.getTuple without checkpoint_id: order by checkpoint_id desc limit 1
GetTuple(S, tid) ==
  CHOOSE c \in ThreadRows(S, tid) :
    \A d \in ThreadRows(S, tid) : d.checkpoint_id <= c.checkpoint_id

\* a put that inserts under the next free checkpoint id when the key exists
PutAppend(S, row) ==
  IF \E c \in S : c.thread_id = row.thread_id /\ c.checkpoint_id = row.checkpoint_id
  THEN S \cup {[row EXCEPT !.checkpoint_id = GetTuple(S, row.thread_id).checkpoint_id + 1]}
  ELSE S \cup {row}

\* SupabaseSaver.put: upsert on (thread_id, checkpoint_ns, checkpoint_id)
Put(S, row) ==
  {c \in S : ~(c.thread_id = row.thread_id /\ c.checkpoint_id = row.checkpoint_id)}
    \cup {row}

\* app.getState(config): values and next of the latest checkpoint
GetState(S, tid) ==
  IF ThreadRows(S, tid) = {}
  THEN [values |-> EmptyValues, next |-> END]
  ELSE [values |-> GetTuple(S, tid).values, next |-> GetTuple(S, tid).next]

Threads(S) == {c.thread_id : c \in S}

\* state.user_id of a job
Owner(S, tid) == GetState(S, tid).values.user_id

\* checkpoint.id, a time-ordered uuid: greater than every id the thread has
NewCheckpointId(S, tid) ==
  IF ThreadRows(S, tid) = {} THEN 1 ELSE GetTuple(S, tid).checkpoint_id + 1

\* SupabaseSaver.list: the rows of a thread, order by checkpoint_id desc
RECURSIVE List(_, _)
List(S, tid) ==
  IF ThreadRows(S, tid) = {} THEN <<>>
  ELSE <<GetTuple(S, tid)>> \o List(S \ {GetTuple(S, tid)}, tid)

\* --------------------------------------------------------------- routing
\* a value that is not null and that JavaScript takes for false: '', 0, false
Falsy == ""

\* if (x)
Truthy(x) == x \notin {None, Falsy}

\* a router that looks at the URL before the text
routeUrlFirst(state) ==
  IF state.article_url # None THEN "scrape_content"
  ELSE IF state.article_text # None THEN "trigger_worker"
  ELSE "pick_article"

\* routeSourceSelection: if (state.article_text), if (state.article_url)
routeSourceSelection(state) ==
  IF state.article_text # None THEN "trigger_worker"
  ELSE IF state.article_url # None THEN "scrape_content"
  ELSE "pick_article"

\* a router that sends an unfinished job back to trigger_worker
waitRouterRedispatch(state) ==
  IF state.error # None THEN "finalize_quiz"
  ELSE IF Truthy(state.generated_quiz) THEN "finalize_quiz"
  ELSE "trigger_worker"

waitRouter(state) ==
  IF state.error # None THEN "finalize_quiz"
  ELSE IF Truthy(state.generated_quiz) THEN "finalize_quiz"
  ELSE "check_status"

\* ------------------------------------------------------------------ Init
NoEntry == [new |-> FALSE, thread_id |-> NoUser, data |-> NoData, resume |-> Poll]

\* n: the number of keys of the body; i: the position of the loop over them;
\* keys: the thread ids met so far; entry: the key and value of the invoke
\* being awaited; thrown, failed: the exception caught and the thread whose
\* invocation threw it
IdleReq ==
  [pc |-> "idle", user |-> NoUser, n |-> 0, i |-> 1, keys |-> {}, hasNew |-> FALSE,
   entry |-> NoEntry,
   response |-> EmptyDelta, threadPromises |-> <<>>, thrown |-> None,
   failed |-> NoUser]

\* a response, with the request it answers: the caller, the number of keys of
\* the body and the thread ids the loop met
NoResp ==
  [code |-> 0, user |-> NoUser, n |-> 0, keys |-> {}, entries |-> EmptyDelta,
   error |-> None, failed |-> NoUser]

\* an invocation of a concurrent request: start is the checkpoint it loaded
IdleRacer ==
  [status |-> "idle", node |-> END, values |-> EmptyValues, start |-> NoCheckpoint,
   ckpt |-> NoCheckpoint, resume |-> Poll, hasResume |-> FALSE]

\* the state of QuizJobProvider: threads, the tracked job ids; isPolling,
\* isPollingRef.current; interval, whether the effect holds an interval;
\* inFlight, the bodies of the poll requests sent and not yet answered;
\* refreshed, whether router.refresh() was called
IdleClient ==
  [threads |-> <<>>, isPolling |-> FALSE, interval |-> FALSE, inFlight |-> <<>>,
   refreshed |-> FALSE]

Init ==
  /\ store = {}
  /\ quizzes = <<>>
  /\ runs = EmptyDelta
  /\ req = [r \in Slots |-> IdleReq]
  /\ now = 1
  /\ nent = 0
  /\ lastResp = NoResp
  /\ reported = EmptyDelta
  /\ dispatched = EmptyDelta
  /\ faults = 0
  /\ puts = <<>>
  /\ racers = [r \in Slots |-> IdleRacer]
  /\ client = IdleClient

\* ------------------------------------------------------------- helpers
Ext(f, k, v) == [x \in (DOMAIN f) \cup {k} |-> IF x = k THEN v ELSE f[x]]
Drop(f, k) == [x \in (DOMAIN f) \ {k} |-> f[x]]
Count(f, k) == IF k \in DOMAIN f THEN f[k] ELSE 0

NewEntry(d) == [new |-> TRUE, thread_id |-> NoUser, data |-> d, resume |-> Poll]
PollEntry(t, v) == [new |-> FALSE, thread_id |-> t, data |-> NoData, resume |-> v]

OtherUser(u) == CHOOSE v \in UserIds : v # u

\* what a client or the worker's callback may send for a thread: 'poll', the
\* payload of the job, a payload naming another quiz, a payload naming another user
ResumeValues(t) ==
  LET st == GetState(store, t).values IN
  { Poll,
    Payload(st.quiz_id, st.user_id),
    Payload(st.quiz_id + 1, st.user_id),
    Payload(st.quiz_id, OtherUser(st.user_id)) }

\* Callers do not race an invocation of the same id (spec section 5): a body
\* polls only ids that have no invocation in flight.
PollableThreads == Threads(store) \ DOMAIN runs

\* the entries a body may hold at the loop's position: a JSON object's keys
\* are unique, so at most one new_quiz and one entry per thread id.  D: the
\* new_quiz values clients send; J: the number of jobs they create at most
Entries(r, D, J) ==
  {NewEntry(d) : d \in IF ~req[r].hasNew /\ Cardinality(Threads(store)) < J
                        THEN D ELSE {}}
    \cup UNION {{PollEntry(t, v) : v \in ResumeValues(t)} :
                  t \in PollableThreads \ req[r].keys}

\* the worker's result is in the quiz row of the job
RowLanded(state, Q) ==
  state.quiz_id \in DOMAIN Q /\ Q[state.quiz_id].content # None

\* the most keys a body can hold: one per job there is to poll, and new_quiz
MaxKeys(J) ==
  Cardinality(PollableThreads) + (IF Cardinality(Threads(store)) < J THEN 1 ELSE 0)

\* ---------------------------------------------------- the graph executor
Running(t) == t \in DOMAIN runs /\ runs[t].status = "running"
AtNode(t, n) == Running(t) /\ runs[t].node = n

\* the invocation stops: interrupted, ended, or a node threw
EndRun(R, t, status, thrown) ==
  IF R[t].owner = 0 THEN Drop(R, t)
  ELSE [R EXCEPT ![t].status = status, ![t].thrown = thrown]

\* a node returned delta: merge it, write the checkpoint, go to the next node
Commit(t, delta, nxt) ==
  LET run == runs[t]
      vals == Merge(run.values, delta)
      id == NewCheckpointId(store, t)
      row == [thread_id |-> t, checkpoint_id |-> id, parent_checkpoint_id |-> run.ckpt,
              values |-> vals, next |-> nxt]
      stepped == [runs EXCEPT ![t].values = vals, ![t].node = nxt, ![t].ckpt = id,
                              ![t].hasResume = FALSE, ![t].resume = Poll]
  IN /\ store' = Put(store, row)
     /\ runs' = IF nxt = END THEN EndRun(stepped, t, "done", None) ELSE stepped

\* ----------------------------------------------------------------- nodes
\* Each node is the set of its outcomes on a state.  An outcome holds the
\* partial state the node returns (delta) and whether it stems from a failure
\* of the environment (fault).
Ok(delta) == [delta |-> delta, fault |-> 0]
Failure(delta) == [delta |-> delta, fault |-> 1]
Allowed(o) == faults + o.fault <= MaxFaults

fetchWordsNode(state) ==
  IF state.error # None THEN {Ok(EmptyDelta)}
  ELSE IF ~state.word_list_ids THEN {Ok([target_words |-> "defaults"])}
  ELSE {Failure([error |-> "DB Error"]), Ok([target_words |-> "words"])}

FetchWords(t) ==
  /\ AtNode(t, "fetch_words")
  /\ \E o \in fetchWordsNode(runs[t].values) :
       /\ Allowed(o)
       /\ faults' = faults + o.fault
       /\ Commit(t, o.delta, routeSourceSelection(Merge(runs[t].values, o.delta)))
  /\ UNCHANGED <<puts, racers, client, quizzes, req, now, nent, lastResp, reported, dispatched>>

pickArticleNode(state) ==
  IF state.error # None THEN {Ok(EmptyDelta)}
  ELSE IF state.language # "dutch"
  THEN {Ok([error |-> "Random article picker only supported for Dutch (NOS.nl)."])}
  ELSE {Failure([error |-> "No articles found"]),
        Failure([error |-> "fetch failed"]),
        Ok([article_url |-> "url"])}

PickArticle(t) ==
  /\ AtNode(t, "pick_article")
  /\ \E o \in pickArticleNode(runs[t].values) :
       /\ Allowed(o)
       /\ faults' = faults + o.fault
       /\ Commit(t, o.delta, "scrape_content")
  /\ UNCHANGED <<puts, racers, client, quizzes, req, now, nent, lastResp, reported, dispatched>>

scrapeContentNode(state) ==
  IF state.error # None THEN {Ok(EmptyDelta)}
  ELSE IF state.article_url = None THEN {Ok([error |-> "No URL to scrape"])}
  ELSE {Failure([error |-> "Could not extract sufficient text from the URL."]),
        Failure([error |-> "Scraping error"]),
        Ok([article_text |-> "text", article_title |-> "title"])}

ScrapeContent(t) ==
  /\ AtNode(t, "scrape_content")
  /\ \E o \in scrapeContentNode(runs[t].values) :
       /\ Allowed(o)
       /\ faults' = faults + o.fault
       /\ Commit(t, o.delta, "trigger_worker")
  /\ UNCHANGED <<puts, racers, client, quizzes, req, now, nent, lastResp, reported, dispatched>>

\* how callWorkerAsync can throw: before any call is made (no worker defined),
\* or after the call was started (it failed within the timer)
WorkerThrows == {"no_worker", "failed"}

\* a catch block of triggerWorkerNode that does not update the quiz row
workerCallFailedUnmarked(inserted, q, w) ==
  {[delta |-> [error |-> "Failed to call worker"], fault |-> 1,
    quizzes |-> inserted,
    started |-> IF w = "failed" THEN 1 ELSE 0, detached |-> FALSE]}

\* the catch block of triggerWorkerNode, callWorkerAsync having thrown as w:
\* the row is marked error, unless that update fails as well
workerCallFailed(inserted, q, w) ==
  {[delta |-> [error |-> "Failed to call worker"], fault |-> 1,
    quizzes |-> [inserted EXCEPT ![q].status = "error"],
    started |-> IF w = "failed" THEN 1 ELSE 0, detached |-> FALSE],
   [delta |-> [error |-> "Failed saving worker error"], fault |-> 1,
    quizzes |-> inserted,
    started |-> IF w = "failed" THEN 1 ELSE 0, detached |-> FALSE]}

\* triggerWorkerNode: also the quizzes table after, and the dispatches started.
\* callWorkerAsync returns when the call finished, or when the timer fired
\* first and the call was moved to the background (detached).  A row keeps the
\* job whose trigger_worker inserted it.
triggerWorkerNode(state, Q) ==
  IF state.error # None \/ state.article_text = None
  THEN {[delta |-> EmptyDelta, fault |-> 0, quizzes |-> Q, started |-> 0,
         detached |-> FALSE]}
  ELSE
    LET q == Len(Q) + 1
        row == [user_id |-> state.user_id, content |-> None, status |-> "generating",
                sent |-> FALSE, detached |-> FALSE, thread_id |-> state.thread_id,
                finalized |-> 0]
        inserted == Append(Q, row)
    IN {[delta |-> [error |-> "insert failed"], fault |-> 1, quizzes |-> Q, started |-> 0,
         detached |-> FALSE]}
       \cup {[delta |-> [quiz_id |-> q], fault |-> 0,
              quizzes |-> [inserted EXCEPT ![q].sent = TRUE, ![q].detached = d],
              started |-> 1, detached |-> d] : d \in BOOLEAN}
       \cup UNION {workerCallFailed(inserted, q, w) : w \in WorkerThrows}

\* T: whether worker calls may outlast the timer
TriggerWorker(t, T) ==
  /\ AtNode(t, "trigger_worker")
  /\ \E o \in triggerWorkerNode(runs[t].values, quizzes) :
       /\ o.detached \in T
       /\ Allowed(o)
       /\ faults' = faults + o.fault
       /\ Commit(t, o.delta, "check_status")
       /\ quizzes' = o.quizzes
       /\ dispatched' = IF o.started = 0 THEN dispatched
                        ELSE Ext(dispatched, t, Count(dispatched, t) + o.started)
  /\ UNCHANGED <<puts, racers, client, req, now, nent, lastResp, reported>>

\* checkStatusNode: also whether it throws.  A failed query leaves data null,
\* and the console.log of data.status before the error test throws.
checkStatusNode(state, Q) ==
  IF state.error # None \/ state.article_text = None
  THEN {[delta |-> EmptyDelta, fault |-> 0, throws |-> FALSE]}
  ELSE
    {[delta |-> EmptyDelta, fault |-> 1, throws |-> TRUE]}
    \cup (IF state.quiz_id \in DOMAIN Q
          THEN {[delta |-> IF Q[state.quiz_id].content # None
                           THEN [generated_quiz |-> Q[state.quiz_id].content]
                           ELSE IF Q[state.quiz_id].status = "error"
                           THEN [error |-> "Worker reported an error"]
                           ELSE EmptyDelta,
                 fault |-> 0, throws |-> FALSE]}
          ELSE {})

CheckStatus(t) ==
  /\ AtNode(t, "check_status")
  /\ \E o \in checkStatusNode(runs[t].values, quizzes) :
       /\ Allowed(o)
       /\ faults' = faults + o.fault
       /\ IF o.throws
          THEN /\ runs' = EndRun(runs, t, "threw", "TypeError")
               /\ UNCHANGED store
          ELSE Commit(t, o.delta, "wait_node")
  /\ UNCHANGED <<puts, racers, client, quizzes, req, now, nent, lastResp, reported, dispatched>>

\* the earlier waitNode (index.ts 846-853): interrupt(), then return {} whatever
\* the resume value is
waitNodePermissive(state, result) == [throws |-> FALSE, delta |-> EmptyDelta]

\* waitNode, given the value interrupt() returned
waitNode(state, result) ==
  IF result.kind = "poll" THEN [throws |-> FALSE, delta |-> EmptyDelta]
  ELSE IF result.quiz_id # state.quiz_id \/ result.user_id # state.user_id
  THEN [throws |-> TRUE, delta |-> EmptyDelta]
  ELSE [throws |-> FALSE, delta |-> [generated_quiz |-> result.exercises]]

\* interrupt() with no resume value for this task: the graph stops here and
\* no checkpoint is written
WaitInterrupt(t) ==
  /\ AtNode(t, "wait_node")
  /\ ~runs[t].hasResume
  /\ runs' = EndRun(runs, t, "suspended", None)
  /\ UNCHANGED <<puts, racers, client, store, quizzes, req, now, nent, lastResp, reported, dispatched,
                 faults>>

\* interrupt() returns the value of Command({resume})
WaitResume(t) ==
  /\ AtNode(t, "wait_node")
  /\ runs[t].hasResume
  /\ LET o == waitNode(runs[t].values, runs[t].resume) IN
       IF o.throws
       THEN /\ runs' = EndRun(runs, t, "threw", "Unexpected content from worker.")
            /\ UNCHANGED store
       ELSE Commit(t, o.delta, waitRouter(Merge(runs[t].values, o.delta)))
  /\ UNCHANGED <<puts, racers, client, quizzes, req, now, nent, lastResp, reported, dispatched, faults>>

\* finalizeQuizNode: the quizzes table after; finalized counts the runs of the
\* update and of the insert of the word-list links
finalizeQuizNode(state, Q) ==
  IF state.error # None THEN Q
  ELSE IF state.quiz_id \in DOMAIN Q
  THEN [Q EXCEPT ![state.quiz_id].status = "ready",
                 ![state.quiz_id].content = state.generated_quiz,
                 ![state.quiz_id].finalized = @ + 1]
  ELSE Q

FinalizeQuiz(t) ==
  /\ AtNode(t, "finalize_quiz")
  /\ quizzes' = finalizeQuizNode(runs[t].values, quizzes)
  /\ Commit(t, EmptyDelta, END)
  /\ UNCHANGED <<puts, racers, client, req, now, nent, lastResp, reported, dispatched, faults>>

\* a detached call that fails late and marks the quiz row as the catch block
\* of triggerWorkerNode would
DetachedSettlesMarks(q) ==
  /\ q \in DOMAIN quizzes
  /\ quizzes[q].detached
  /\ \E ok \in BOOLEAN :
       quizzes' = IF ok THEN [quizzes EXCEPT ![q].detached = FALSE]
                  ELSE [quizzes EXCEPT ![q].detached = FALSE, ![q].status = "error"]
  /\ UNCHANGED <<puts, racers, client, store, runs, req, now, nent, lastResp, reported, dispatched, faults>>

\* the call moved to the background settles, with success or with a failure:
\* worker.then(() => console.log(...)) only logs
DetachedSettles(q) ==
  /\ q \in DOMAIN quizzes
  /\ quizzes[q].detached
  /\ \E ok \in BOOLEAN : quizzes' = [quizzes EXCEPT ![q].detached = FALSE]
  /\ UNCHANGED <<puts, racers, client, store, runs, req, now, nent, lastResp, reported, dispatched, faults>>

\* payload.exercises as save-quiz lets it through: an array, or a value that
\* fails the test "payload.exercises &&" and is not checked further
Contents == {"exercises", Falsy}

\* the external worker stores its result in the quiz row (save-quiz), or
\* marks the row as failed.  C: the values of exercises it sends
WorkerSaves(q, C) ==
  /\ q \in DOMAIN quizzes
  /\ quizzes[q].sent
  /\ quizzes[q].status = "generating"
  /\ \E ok \in BOOLEAN, exercises \in C :
       /\ ok \/ (faults < MaxFaults /\ exercises = "exercises")
       /\ faults' = IF ok THEN faults ELSE faults + 1
       /\ quizzes' = IF ok THEN [quizzes EXCEPT ![q].content = exercises,
                                                ![q].status = "ready"]
                     ELSE [quizzes EXCEPT ![q].status = "error"]
  /\ UNCHANGED <<puts, racers, client, store, runs, req, now, nent, lastResp, reported, dispatched>>

\* ------------------------------------------------------ the HTTP handler
Sequential == \A r \in Slots : req[r].pc = "idle"

\* a request with n keys arrives; auth.getUser fails for a missing or invalid
\* credential
StartRequest(r, caller, n) ==
  /\ nent + n <= MaxEntries
  /\ req[r].pc = "idle"
  /\ nent' = nent + n
  /\ req' = [req EXCEPT ![r] =
       IF caller = NoUser
       THEN [IdleReq EXCEPT !.pc = "catch", !.n = n, !.thrown = "Unauthorized"]
       ELSE [IdleReq EXCEPT !.pc = "loop", !.user = caller, !.n = n]]
  /\ lastResp' = NoResp
  /\ UNCHANGED <<puts, racers, client, store, quizzes, runs, now, reported, dispatched, faults>>

AtEntry(r) == req[r].pc = "loop" /\ req[r].i <= req[r].n

\* after an entry: the next key, or Promise.all when the keys are used up
Advance(rq) ==
  [rq EXCEPT !.i = rq.i + 1,
             !.pc = IF rq.i + 1 > rq.n THEN "await_all" ELSE "loop"]

Met(rq, e) ==
  [rq EXCEPT !.keys = IF e.new THEN @ ELSE @ \cup {e.thread_id},
             !.hasNew = @ \/ e.new]

\* threadId === 'new_quiz' and NewQuizSchema.parse throws
NewQuizInvalid(r, D, J) ==
  /\ AtEntry(r)
  /\ \E e \in Entries(r, D, J) :
       /\ e.new
       /\ ~SchemaValid(e.data)
       /\ req' = [req EXCEPT ![r] = [Met(req[r], e) EXCEPT !.pc = "catch", !.thrown = "ZodError"]]
  /\ UNCHANGED <<puts, racers, client, store, quizzes, runs, now, nent, lastResp, reported, dispatched, faults>>

\* app.invoke(input, config): the channels after the input is written.  On a
\* thread that has checkpoints the latest one is loaded first, and the keys
\* the input does not hold (quiz_id, generated_quiz, error, and the article
\* fields the request left out) keep its values
invokeInput(S, tid, init) ==
  IF ThreadRows(S, tid) = {} THEN init
  ELSE [k \in DOMAIN init |->
          IF k \in {"quiz_id", "generated_quiz", "error"}
             \/ (k \in {"article_url", "article_text", "article_title"} /\ init[k] = None)
          THEN GetTuple(S, tid).values[k]
          ELSE init[k]]

\* threadId === 'new_quiz': app.invoke(initialState, config), not awaited
NewQuiz(r, D, J) ==
  /\ AtEntry(r)
  /\ \E e \in Entries(r, D, J) :
       /\ e.new
       /\ SchemaValid(e.data)
       /\ LET tid == NewThreadId(req[r].user, now)
              init == invokeInput(store, tid, InitialState(e.data, req[r].user, tid))
              id == NewCheckpointId(store, tid)
              parent == IF ThreadRows(store, tid) = {} THEN NoCheckpoint
                        ELSE GetTuple(store, tid).checkpoint_id
              row == [thread_id |-> tid, checkpoint_id |-> id,
                      parent_checkpoint_id |-> parent,
                      values |-> init, next |-> "fetch_words"]
          IN /\ tid \notin DOMAIN runs
             /\ store' = Put(store, row)
             /\ runs' = Ext(runs, tid,
                  [kind |-> "create", node |-> "fetch_words", values |-> init, ckpt |-> id,
                   resume |-> Poll, hasResume |-> FALSE, caller |-> req[r].user,
                   landed |-> FALSE, before |-> init,
                   owner |-> r, status |-> "running", thrown |-> None])
             /\ req' = [req EXCEPT ![r] =
                  Advance([Met(req[r], e) EXCEPT !.threadPromises = Append(@, tid)])]
  /\ UNCHANGED <<puts, racers, client, quizzes, now, nent, lastResp, reported, dispatched, faults>>

\* !threadId.startsWith(user.id)
PollForbidden(r, D, J) ==
  /\ AtEntry(r)
  /\ \E e \in Entries(r, D, J) :
       /\ ~e.new
       /\ ~StartsWith(e.thread_id, req[r].user)
       /\ req' = [req EXCEPT ![r] =
            Advance([Met(req[r], e) EXCEPT !.response = Ext(@, e.thread_id, "forbidden")])]
  /\ UNCHANGED <<puts, racers, client, store, quizzes, runs, now, nent, lastResp, reported, dispatched, faults>>

\* getState: the graph is finished (no next node)
PollFinished(r, D, J) ==
  /\ AtEntry(r)
  /\ \E e \in Entries(r, D, J) :
       /\ ~e.new
       /\ StartsWith(e.thread_id, req[r].user)
       /\ GetState(store, e.thread_id).next = END
       /\ req' = [req EXCEPT ![r] =
            Advance([Met(req[r], e) EXCEPT !.response = Ext(@, e.thread_id, "completed")])]
  /\ UNCHANGED <<puts, racers, client, store, quizzes, runs, now, nent, lastResp, reported, dispatched, faults>>

\* getState: the graph is interrupted; await app.invoke(new Command({resume})).
\* The invocation remembers who called it and whether the worker's result was
\* in the quiz row when it began.
PollResume(r, D, J) ==
  /\ AtEntry(r)
  /\ \E e \in Entries(r, D, J) :
       /\ ~e.new
       /\ StartsWith(e.thread_id, req[r].user)
       /\ LET tid == e.thread_id
              snap == GetState(store, tid)
          IN /\ snap.next # END
             /\ tid \notin DOMAIN runs
             /\ runs' = Ext(runs, tid,
                  [kind |-> "resume", node |-> snap.next, values |-> snap.values,
                   ckpt |-> GetTuple(store, tid).checkpoint_id,
                   resume |-> e.resume, hasResume |-> TRUE, caller |-> req[r].user,
                   landed |-> RowLanded(snap.values, quizzes), before |-> snap.values,
                   owner |-> r, status |-> "running", thrown |-> None])
             /\ req' = [req EXCEPT ![r] =
                  [Met(req[r], e) EXCEPT !.pc = "await_invoke", !.entry = e]]
  /\ UNCHANGED <<puts, racers, client, store, quizzes, now, nent, lastResp, reported, dispatched, faults>>

\* the awaited invoke settles: its value is stored in threadPromises, or its
\* exception leaves the loop
ResumeReturns(r) ==
  /\ req[r].pc = "await_invoke"
  /\ LET tid == req[r].entry.thread_id IN
       /\ tid \in DOMAIN runs
       /\ runs[tid].status # "running"
       /\ runs' = Drop(runs, tid)
       /\ req' = [req EXCEPT ![r] =
            IF runs[tid].status = "threw"
            THEN [req[r] EXCEPT !.pc = "catch", !.thrown = runs[tid].thrown,
                                !.failed = tid, !.entry = NoEntry]
            ELSE Advance([req[r] EXCEPT !.threadPromises = Append(@, tid),
                                        !.entry = NoEntry])]
  /\ UNCHANGED <<puts, racers, client, store, quizzes, now, nent, lastResp, reported, dispatched, faults>>

Range(s) == {s[i] : i \in DOMAIN s}
Owned(r) == {t \in DOMAIN runs : runs[t].owner = r}

\* a status decision that does not look at finalState.next
StatusOfEager(S, tid) ==
  LET finalState == GetState(S, tid) IN
  IF finalState.values.error # None THEN "error" ELSE "completed"

\* the status of a thread in the response, from its state re-read after the run
StatusOf(S, tid) ==
  LET finalState == GetState(S, tid) IN
  IF finalState.values.error # None THEN "error"
  ELSE IF finalState.next = END THEN "completed"
  ELSE "processing"

\* what leaves with the response of slot r: settled invocations are dropped,
\* one still running goes on in the background
Release(r) ==
  [t \in {u \in DOMAIN runs : ~(runs[u].owner = r /\ runs[u].status # "running")} |->
     IF runs[t].owner = r THEN [runs[t] EXCEPT !.owner = 0] ELSE runs[t]]

\* await Promise.all, then one getState per thread, then the 200 response
Respond(r) ==
  /\ req[r].pc = "await_all"
  /\ \A t \in Owned(r) : runs[t].status \notin {"running", "threw"}
  /\ LET response ==
           [t \in (DOMAIN req[r].response) \cup Range(req[r].threadPromises) |->
              IF t \in Range(req[r].threadPromises) THEN StatusOf(store, t)
              ELSE req[r].response[t]]
     IN /\ lastResp' = [code |-> 200, user |-> req[r].user, n |-> req[r].n,
                         keys |-> req[r].keys, entries |-> response,
                         error |-> None, failed |-> NoUser]
        /\ reported' =
             LET told == {t \in DOMAIN response : Owner(store, t) = req[r].user} IN
             [t \in (DOMAIN reported) \cup told |->
                IF t \in told THEN response[t] ELSE reported[t]]
  /\ runs' = Release(r)
  /\ req' = [req EXCEPT ![r] = IdleReq]
  /\ now' = now + 1
  /\ UNCHANGED <<puts, racers, client, store, quizzes, nent, dispatched, faults>>

\* await Promise.all rejects: an invocation started by new_quiz threw
AwaitAllThrows(r) ==
  /\ req[r].pc = "await_all"
  /\ \E t \in Owned(r) :
       /\ runs[t].status = "threw"
       /\ req' = [req EXCEPT ![r].pc = "catch", ![r].thrown = runs[t].thrown,
                              ![r].failed = t]
  /\ UNCHANGED <<puts, racers, client, store, quizzes, runs, now, nent, lastResp, reported, dispatched, faults>>

\* catch (err): the 500 response {error: err.message}
RespondError(r) ==
  /\ req[r].pc = "catch"
  /\ lastResp' = [code |-> 500, user |-> req[r].user, n |-> req[r].n,
                  keys |-> req[r].keys, entries |-> EmptyDelta,
                  error |-> req[r].thrown, failed |-> req[r].failed]
  /\ runs' = Release(r)
  /\ req' = [req EXCEPT ![r] = IdleReq]
  /\ now' = now + 1
  /\ UNCHANGED <<puts, racers, client, store, quizzes, nent, reported, dispatched, faults>>

\* ------------------------------------------------------------------ Next
BatchSizes == 1..MaxEntries

\* D: the new_quiz values; J: the jobs created at most; T: the timings of
\* worker calls (TRUE: the timer fires first); C: the exercises workers send
NextOf(D, J, T, C) ==
  \/ \E caller \in UserIds \cup {NoUser}, n \in BatchSizes :
       Sequential /\ n <= MaxKeys(J) /\ StartRequest(1, caller, n)
  \/ \E r \in Slots : NewQuizInvalid(r, D, J)
  \/ \E r \in Slots : NewQuiz(r, D, J)
  \/ \E r \in Slots : PollForbidden(r, D, J)
  \/ \E r \in Slots : PollFinished(r, D, J)
  \/ \E r \in Slots : PollResume(r, D, J)
  \/ \E r \in Slots : ResumeReturns(r)
  \/ \E r \in Slots : Respond(r)
  \/ \E r \in Slots : AwaitAllThrows(r)
  \/ \E r \in Slots : RespondError(r)
  \/ \E t \in DOMAIN runs : FetchWords(t)
  \/ \E t \in DOMAIN runs : PickArticle(t)
  \/ \E t \in DOMAIN runs : ScrapeContent(t)
  \/ \E t \in DOMAIN runs : TriggerWorker(t, T)
  \/ \E t \in DOMAIN runs : CheckStatus(t)
  \/ \E t \in DOMAIN runs : WaitInterrupt(t)
  \/ \E t \in DOMAIN runs : WaitResume(t)
  \/ \E t \in DOMAIN runs : FinalizeQuiz(t)
  \/ \E q \in DOMAIN quizzes : WorkerSaves(q, C)

\* one job, any input, any timing of the worker call, any exercises
Next ==
  \/ NextOf(NewQuizInputs, 1, BOOLEAN, Contents)
  \/ \E q \in DOMAIN quizzes : DetachedSettles(q)
Spec == Init /\ [][Next]_vars

\* several jobs, the inputs that run the whole pipeline or fail validation,
\* worker calls that finish within the timer, workers that send an array
NextBatch == NextOf(BatchInputs, MaxJobs, {FALSE}, {"exercises"})
SpecBatch == Init /\ [][NextBatch]_vars

\* ------------------------------------------------- the saver on its own
StoreThreads == {NewThreadId(UserA, 1), NewThreadId(UserB, 1)}

\* checkpoint content: a job's state, with or without an error
StoreValues(tid) ==
  LET init == InitialState(CHOOSE d \in NewQuizInputs : d.word_list_ids,
                           SubSeq(tid, 1, Len(tid) - 2), tid)
  IN {init, Merge(init, [error |-> "DB Error"])}

\* the rows put(config, checkpoint, metadata) builds: thread_id and
\* parent_checkpoint_id from config, checkpoint_id and content from checkpoint
StoreRows ==
  UNION {{[thread_id |-> tid, checkpoint_id |-> id, parent_checkpoint_id |-> parent,
           values |-> v, next |-> "fetch_words"] :
            id \in 1..2, parent \in {NoCheckpoint, 1}, v \in StoreValues(tid)} :
         tid \in StoreThreads}

\* saver.put(config, checkpoint, metadata): the upsert does not fail on a
\* conflict of the key
StorePut(row) ==
  /\ Len(puts) < MaxPuts
  /\ store' = Put(store, row)
  /\ puts' = Append(puts, row)
  /\ UNCHANGED <<quizzes, runs, req, now, nent, lastResp, reported, dispatched, faults,
                 racers, client>>

NextStore == \E row \in StoreRows : StorePut(row)
SpecStore == Init /\ [][NextStore]_vars

\* -------------------------------------- two resumes of one job at once
\* The job: source text and title given, created by UserA, dispatched, and
\* suspended at wait_node after its creation was answered.
RaceThread == NewThreadId(UserA, 1)

RaceInput ==
  CHOOSE d \in NewQuizInputs : d.article_text # None /\ d.article_title # None

\* what the creation run wrote: the input, then one checkpoint per node
RaceSteps ==
  << [delta |-> EmptyDelta, next |-> "fetch_words"],
     [delta |-> [target_words |-> "defaults"], next |-> "trigger_worker"],
     [delta |-> [quiz_id |-> 1], next |-> "check_status"],
     [delta |-> EmptyDelta, next |-> "wait_node"] >>

RECURSIVE RaceValues(_)
RaceValues(k) ==
  IF k = 0 THEN InitialState(RaceInput, UserA, RaceThread)
  ELSE Merge(RaceValues(k - 1), RaceSteps[k].delta)

RaceStore ==
  {[thread_id |-> RaceThread, checkpoint_id |-> k, parent_checkpoint_id |-> k - 1,
    values |-> RaceValues(k), next |-> RaceSteps[k].next] : k \in DOMAIN RaceSteps}

\* the placeholder row, before or after the worker saved its result
RaceQuizzes(landed) ==
  << [user_id |-> UserA, content |-> IF landed THEN "exercises" ELSE None,
      status |-> IF landed THEN "ready" ELSE "generating",
      sent |-> TRUE, detached |-> FALSE, thread_id |-> RaceThread, finalized |-> 0] >>

\* the state of the one-job specification once that creation was answered
RaceState(landed) ==
  /\ store = RaceStore
  /\ quizzes = RaceQuizzes(landed)
  /\ runs = EmptyDelta
  /\ req = [r \in Slots |-> IdleReq]
  /\ now = 2
  /\ nent = 1
  /\ lastResp = [code |-> 200, user |-> UserA, n |-> 1, keys |-> {},
                 entries |-> Ext(EmptyDelta, RaceThread, "processing"),
                 error |-> None, failed |-> NoUser]
  /\ reported = Ext(EmptyDelta, RaceThread, "processing")
  /\ dispatched = Ext(EmptyDelta, RaceThread, 1)
  /\ faults = 0
  /\ puts = <<>>
  /\ racers = [r \in Slots |-> IdleRacer]
  /\ client = IdleClient

InitRace == \E landed \in BOOLEAN : RaceState(landed)

RaceUnchanged ==
  UNCHANGED <<runs, req, now, nent, lastResp, reported, dispatched, puts,
              client>>

\* getState, then app.invoke(new Command({resume})): the request of slot r
\* loads the latest checkpoint of the job
RaceResume(r, v) ==
  /\ racers[r].status = "idle"
  /\ GetState(store, RaceThread).next # END
  /\ racers' = [racers EXCEPT ![r] =
       [status |-> "running", node |-> GetState(store, RaceThread).next,
        values |-> GetState(store, RaceThread).values,
        start |-> GetTuple(store, RaceThread).checkpoint_id,
        ckpt |-> GetTuple(store, RaceThread).checkpoint_id,
        resume |-> v, hasResume |-> TRUE]]
  /\ UNCHANGED <<store, quizzes, faults>>
  /\ RaceUnchanged

\* getState: the graph is finished, nothing is invoked
RaceFinished(r) ==
  /\ racers[r].status = "idle"
  /\ GetState(store, RaceThread).next = END
  /\ racers' = [racers EXCEPT ![r].status = "skipped"]
  /\ UNCHANGED <<store, quizzes, faults>>
  /\ RaceUnchanged

RaceAt(r, n) == racers[r].status = "running" /\ racers[r].node = n

\* a node of the invocation of slot r returned delta: its checkpoint has the
\* invocation's previous checkpoint as parent
RaceCommit(r, delta, nxt) ==
  LET vals == Merge(racers[r].values, delta)
      id == NewCheckpointId(store, RaceThread)
      row == [thread_id |-> RaceThread, checkpoint_id |-> id,
              parent_checkpoint_id |-> racers[r].ckpt, values |-> vals, next |-> nxt]
  IN /\ store' = Put(store, row)
     /\ racers' = [racers EXCEPT ![r].values = vals, ![r].node = nxt, ![r].ckpt = id,
                                 ![r].hasResume = FALSE, ![r].resume = Poll,
                                 ![r].status = IF nxt = END THEN "done" ELSE @]

RaceWaitResume(r) ==
  /\ RaceAt(r, "wait_node")
  /\ racers[r].hasResume
  /\ LET o == waitNode(racers[r].values, racers[r].resume) IN
       IF o.throws
       THEN /\ racers' = [racers EXCEPT ![r].status = "threw"]
            /\ UNCHANGED store
       ELSE RaceCommit(r, o.delta, waitRouter(Merge(racers[r].values, o.delta)))
  /\ UNCHANGED <<quizzes, faults>>
  /\ RaceUnchanged

RaceWaitInterrupt(r) ==
  /\ RaceAt(r, "wait_node")
  /\ ~racers[r].hasResume
  /\ racers' = [racers EXCEPT ![r].status = "suspended"]
  /\ UNCHANGED <<store, quizzes, faults>>
  /\ RaceUnchanged

RaceCheckStatus(r) ==
  /\ RaceAt(r, "check_status")
  /\ \E o \in checkStatusNode(racers[r].values, quizzes) :
       /\ Allowed(o)
       /\ faults' = faults + o.fault
       /\ IF o.throws
          THEN /\ racers' = [racers EXCEPT ![r].status = "threw"]
               /\ UNCHANGED store
          ELSE RaceCommit(r, o.delta, "wait_node")
  /\ UNCHANGED quizzes
  /\ RaceUnchanged

RaceFinalizeQuiz(r) ==
  /\ RaceAt(r, "finalize_quiz")
  /\ quizzes' = finalizeQuizNode(racers[r].values, quizzes)
  /\ RaceCommit(r, EmptyDelta, END)
  /\ UNCHANGED faults
  /\ RaceUnchanged

NextRace ==
  \/ \E r \in Slots, v \in ResumeValues(RaceThread) : RaceResume(r, v)
  \/ \E r \in Slots : RaceFinished(r)
  \/ \E r \in Slots : RaceWaitResume(r)
  \/ \E r \in Slots : RaceWaitInterrupt(r)
  \/ \E r \in Slots : RaceCheckStatus(r)
  \/ \E r \in Slots : RaceFinalizeQuiz(r)

SpecRace == InitRace /\ [][NextRace]_vars

\* ---------------------------------------------------------------- claims
\* errors that reject a whole request: a missing or invalid credential, a
\* new_quiz that fails NewQuizSchema
RequestErrors == {"Unauthorized", "ZodError"}

\* the graph of a job has ended
Ended(t) == t \in Threads(store) /\ GetState(store, t).next = END

\* C1: for every job, over a creation request followed by any polls and
\* payload resumes, the worker dispatch of trigger_worker is started at most
\* once.
C1_DispatchAtMostOnce == \A t \in DOMAIN dispatched : dispatched[t] <= 1

\* a job that was dispatched once, then resumed until its graph ended and
\* reported completed
C1_DispatchedThenCompleted ==
  \E t \in DOMAIN dispatched :
    /\ dispatched[t] = 1
    /\ Ended(t)
    /\ t \in DOMAIN reported /\ reported[t] = "completed"
    /\ GetState(store, t).values.generated_quiz # None

\* C2: once state.error is set in a checkpoint of a job, every later
\* checkpoint of the job carries the same error and every other field
\* unchanged.
C2_ErrorFreezesState ==
  \A c \in store, d \in store :
    (c.thread_id = d.thread_id /\ c.checkpoint_id < d.checkpoint_id
       /\ c.values.error # None)
    => d.values = c.values

\* C3: in every checkpoint of every job, error and generated_quiz are never
\* both set.
C3_ErrorExcludesQuiz ==
  \A c \in store : ~(c.values.error # None /\ c.values.generated_quiz # None)

\* C4: when a request polls a job that the caller does not own, the entry of
\* that id is `forbidden` and the request starts no invocation for it.
C4_ForbiddenIsolation ==
  \A r \in Slots : \A t \in req[r].keys :
    (t \in Threads(store) /\ Owner(store, t) # req[r].user)
    => /\ t \in DOMAIN req[r].response
       /\ req[r].response[t] = "forbidden"
       /\ ~(t \in DOMAIN runs /\ runs[t].owner = r)

\* C5: a job is resumed only by the caller whose identity equals
\* state.user_id, for all user ids, one a string prefix of the other included.
C5_ResumeOnlyByOwner ==
  \A t \in DOMAIN runs :
    runs[t].kind = "resume" => runs[t].caller = runs[t].values.user_id

\* C6: after a job was reported completed, every further poll of it by its
\* owner returns completed again (in any request that is not rejected as a
\* whole for its credential or its new_quiz), and no invocation runs for it.
C6_CompletedIdempotent ==
  /\ \A t \in lastResp.keys :
       (/\ t \in DOMAIN reported
        /\ reported[t] = "completed"
        /\ Owner(store, t) = lastResp.user
        /\ lastResp.error \notin RequestErrors)
       => (t \in DOMAIN lastResp.entries /\ lastResp.entries[t] = "completed")
  /\ \A t \in DOMAIN runs : ~(t \in DOMAIN reported /\ reported[t] = "completed")

\* C7: once the graph of a job has ended with state.error set and the job was
\* reported as error, the status reported to its owner stays error.
C7_FailedStaysError ==
  [][\A t \in DOMAIN reported :
       (reported[t] = "error" /\ Ended(t) /\ GetState(store, t).values.error # None)
       => reported'[t] = "error"]_vars

\* C8: a request with N keys that is answered with statuses has exactly N
\* entries, and when the resume of one polled id fails, the other ids the
\* request polled still have their entries in the response.
C8_BatchIsolation ==
  /\ lastResp.code = 200 => Cardinality(DOMAIN lastResp.entries) = lastResp.n
  /\ lastResp.failed \in lastResp.keys
       => \A t \in lastResp.keys \ {lastResp.failed} : t \in DOMAIN lastResp.entries

\* C9: within one request the resume of a job is started without waiting for
\* the resume of another: the loop never waits for a running resume while the
\* body has a further key and the caller has a further job to resume.
C9_ResumesConcurrent ==
  \A r \in Slots :
    ~(/\ req[r].pc = "await_invoke"
      /\ Running(req[r].entry.thread_id)
      /\ req[r].i < req[r].n
      /\ \E u \in PollableThreads \ req[r].keys :
            StartsWith(u, req[r].user) /\ ~Ended(u))

\* C10: a step that throws never makes the request fail as a whole: the only
\* error responses are those of a rejected credential or new_quiz.
C10_StepErrorsAreData == lastResp.error \in {None} \cup RequestErrors

\* a resume value that waitNode must reject for the state
Mismatch(state, result) ==
  /\ result.kind = "payload"
  /\ (result.quiz_id # state.quiz_id \/ result.user_id # state.user_id)

\* C11: a payload resume whose quiz_id or user_id differs from the state's is
\* rejected: the invocation throws, no checkpoint is written, and the latest
\* checkpoint is still the one suspended at wait_node, generated_quiz as before.
C11_PayloadValidated ==
  [][\A t \in DOMAIN runs :
       (/\ AtNode(t, "wait_node")
        /\ runs[t].hasResume
        /\ Mismatch(runs[t].values, runs[t].resume)
        /\ (t \notin DOMAIN runs' \/ runs'[t] # runs[t]))
       => /\ t \in DOMAIN runs'
          /\ runs'[t].status = "threw"
          /\ store' = store
          /\ quizzes' = quizzes
          /\ GetState(store', t).next = "wait_node"
          /\ GetState(store', t).values = runs[t].values]_vars

\* a resume was rejected and the job is still suspended at wait_node
C11_PayloadRejected ==
  \E t \in DOMAIN runs :
    /\ runs[t].status = "threw"
    /\ runs[t].thrown = "Unexpected content from worker."
    /\ GetState(store, t).next = "wait_node"
    /\ GetState(store, t).values.generated_quiz = None

\* C12: an invocation started by a resume runs only wait_node, check_status
\* and finalize_quiz, however many times the job is polled.
C12_ResumeNodes ==
  \A t \in DOMAIN runs :
    runs[t].kind = "resume"
    => runs[t].node \in {"wait_node", "check_status", "finalize_quiz", END}

\* a resume of a dispatched job has gone through wait_node and check_status
\* and is at finalize_quiz
C12_ResumeAtFinalize ==
  \E t \in DOMAIN runs :
    /\ runs[t].kind = "resume"
    /\ AtNode(t, "finalize_quiz")
    /\ Count(dispatched, t) = 1
    /\ Cardinality(ThreadRows(store, t)) >= 7

\* the worker's result has landed: the quiz row of the job has content, or a
\* payload put generated_quiz in the state
Landed(t) ==
  LET st == GetState(store, t).values IN
  \/ st.generated_quiz # None
  \/ (st.quiz_id \in DOMAIN quizzes /\ quizzes[st.quiz_id].content # None)

C13_PollAfterLandingCompletes ==
  faults = 0 =>
  /\ \A t \in (DOMAIN lastResp.entries) \ lastResp.keys :
       (GetState(store, t).values.quiz_id # NoQuiz
          /\ GetState(store, t).values.error = None)
       => lastResp.entries[t] = "processing"
  /\ \A t \in DOMAIN runs :
       (/\ runs[t].kind = "resume"
        /\ runs[t].caller = runs[t].values.user_id
        /\ runs[t].landed
        /\ runs[t].status \notin {"running", "threw"}
        /\ runs[t].values.error = None)
       => StatusOf(store, t) = "completed"

\* the first checkpoint of a job: its input
FirstState(t) == GetTupleOldest(store, t).values

\* the nodes that have returned for a job, from the parent of each checkpoint
Visited(t, n) ==
  \E c \in ThreadRows(store, t), d \in ThreadRows(store, t) :
    c.next = n /\ d.parent_checkpoint_id = c.checkpoint_id

\* C16: a job created with no word lists, no text and no URL runs pick_article
\* and scrape_content before trigger_worker; when pick_article finds no
\* article, no dispatch is made and the creation run leaves the graph ended
\* with state.error set.
C16_NoArticleFailsAtCreation ==
  \A t \in Threads(store) :
    (/\ ~FirstState(t).word_list_ids
     /\ FirstState(t).article_text = None
     /\ FirstState(t).article_url = None)
    => /\ Visited(t, "trigger_worker")
            => (Visited(t, "pick_article") /\ Visited(t, "scrape_content"))
       /\ GetState(store, t).values.error = "No articles found"
            => /\ Count(dispatched, t) = 0
               /\ (t \in DOMAIN runs
                     /\ runs[t].kind = "create"
                     /\ runs[t].status # "running") => Ended(t)

\* C17: a request whose new_quiz fails validation is rejected without having
\* started any invocation: no job of the request was resumed or created.
C17_InvalidLeavesNoTrace ==
  \A r \in Slots :
    req[r].thrown = "ZodError"
    => (req[r].threadPromises = <<>> /\ Owned(r) = {})

\* the errors the catch block of triggerWorkerNode returns
WorkerCallErrors == {"Failed to call worker", "Failed saving worker error"}

\* callWorkerAsync threw to the trigger_worker of job t
CallFailed(t) ==
  t \in Threads(store) /\ GetState(store, t).values.error \in WorkerCallErrors

\* the rows of the quizzes table that job t inserted
RowsOf(t) == {q \in DOMAIN quizzes : quizzes[q].thread_id = t}

\* the 200 response now read answers the request that created job t
CreationAnswered(t) ==
  lastResp.code = 200 /\ t \in (DOMAIN lastResp.entries) \ lastResp.keys

\* C18: when callWorkerAsync throws to trigger_worker (the call failed within
\* the timer, or no worker is configured), the job's state has the error and
\* no quiz_id, its placeholder row is marked error unless that update failed
\* as well ("Failed saving worker error"), the creation run does not throw and
\* the creation response of the job is error.
C18_CallFailureFailsJob ==
  \A t \in Threads(store) :
    CallFailed(t) =>
      LET state == GetState(store, t).values IN
      /\ state.quiz_id = NoQuiz
      /\ RowsOf(t) # {}
      /\ state.error = "Failed to call worker"
           => \A q \in RowsOf(t) : quizzes[q].status = "error"
      /\ (t \in DOMAIN runs /\ runs[t].kind = "create") => runs[t].status # "threw"
      /\ CreationAnswered(t) => lastResp.entries[t] = "error"

\* a creation answered error after the worker call failed, the row marked
C18_CreationAnsweredError ==
  \E t \in Threads(store) :
    /\ CallFailed(t)
    /\ CreationAnswered(t)
    /\ lastResp.entries[t] = "error"
    /\ \E q \in RowsOf(t) : quizzes[q].status = "error"

\* C18 as stated: whenever callWorkerAsync throws to trigger_worker, the
\* placeholder quiz row of the job is marked error.
C18_RowAlwaysMarked ==
  \A t \in Threads(store) :
    CallFailed(t) => \A q \in RowsOf(t) : quizzes[q].status = "error"

\* C19: when the timer fires before the worker call settles, trigger_worker
\* returns with quiz_id recorded and no error; and when the detached call
\* settles later, with success or with a failure, no checkpoint, no invocation
\* and neither content nor status of the quiz row changes.
C19_DetachedCallHasNoEffect ==
  [][\A q \in DOMAIN quizzes' :
       /\ (q \notin DOMAIN quizzes /\ quizzes'[q].detached)
            => LET state == GetState(store', quizzes'[q].thread_id).values IN
               state.quiz_id = q /\ state.error = None
       /\ (q \in DOMAIN quizzes /\ quizzes[q].detached /\ ~quizzes'[q].detached)
            => /\ store' = store
               /\ runs' = runs
               /\ quizzes'[q].content = quizzes[q].content
               /\ quizzes'[q].status = quizzes[q].status]_vars

\* a worker call still in the background when the graph of its job has ended
C19_DetachedWhenJobEnded ==
  \E q \in DOMAIN quizzes :
    /\ quizzes[q].detached
    /\ Ended(quizzes[q].thread_id)
    /\ GetState(store, quizzes[q].thread_id).values.quiz_id = q
    /\ GetState(store, quizzes[q].thread_id).values.error = None

\* the store after the puts of a sequence of rows, from the empty table
RECURSIVE Replay(_)
Replay(rows) ==
  IF rows = <<>> THEN {}
  ELSE Put(Replay(SubSeq(rows, 1, Len(rows) - 1)), rows[Len(rows)])

\* rows without its i-th element
Without(rows, i) == SubSeq(rows, 1, i - 1) \o SubSeq(rows, i + 1, Len(rows))

\* C20: a put that repeats the put before it (same thread_id, checkpoint id,
\* parent, content) is carried out and leaves the store as if it had been
\* called once: the same rows, the same getTuple and list of every thread.
C20_PutIdempotent ==
  /\ store = Replay(puts)
  /\ \A i \in 1..(Len(puts) - 1) :
       puts[i] = puts[i + 1] =>
         LET once == Replay(Without(puts, i + 1)) IN
         /\ store = once
         /\ \A tid \in StoreThreads :
              /\ GetState(store, tid) = GetState(once, tid)
              /\ List(store, tid) = List(once, tid)

\* a row was put over another row of the same key, then the same put repeated
C20_PutRepeated ==
  /\ Len(puts) = 3
  /\ puts[2] = puts[3]
  /\ puts[1] # puts[2]
  /\ puts[1].thread_id = puts[2].thread_id
  /\ puts[1].checkpoint_id = puts[2].checkpoint_id

\* C15: once the worker's result is in the quiz row, every poll of the owner
\* that settles brings the job nearer to its end: it ends the graph, or it
\* changes the job's state; a client that keeps polling then sees the job end
\* after finitely many polls.
C15_LandedPollsTerminate ==
  \A t \in DOMAIN runs :
    (/\ runs[t].kind = "resume"
     /\ runs[t].caller = runs[t].before.user_id
     /\ runs[t].landed
     /\ runs[t].status = "suspended")
    => runs[t].values # runs[t].before

\* two rows have the key of the upsert: thread_id, checkpoint_ns, checkpoint_id
SameKey(a, b) == a.thread_id = b.thread_id /\ a.checkpoint_id = b.checkpoint_id

\* C21: a put under the key of an existing checkpoint with another content is
\* rejected: the store keeps, under every key, the content that was put first.
C21_ConflictRejected ==
  \A i \in DOMAIN puts :
    (\A k \in 1..(i - 1) : ~SameKey(puts[k], puts[i]))
      => \E c \in store : SameKey(c, puts[i]) /\ c.values = puts[i].values

\* the checkpoints of thread tid form one chain: one root, no checkpoint with
\* two children
Linear(S, tid) ==
  /\ Cardinality({c \in ThreadRows(S, tid) : c.parent_checkpoint_id = NoCheckpoint}) = 1
  /\ \A c \in ThreadRows(S, tid) :
       Cardinality({d \in ThreadRows(S, tid) :
                      d.parent_checkpoint_id = c.checkpoint_id}) <= 1

\* C22: after any interleaving of creations, polls and payload resumes, the
\* checkpoints of every job form a single linear chain.
C22_SingleChain == \A tid \in Threads(store) : Linear(store, tid)

\* C23: when two resumes of a suspended job run at the same time, one of them
\* writes nothing, and finalize_quiz updates the quiz row at most once.
C23_SecondResumeHarmless ==
  /\ \A q \in DOMAIN quizzes : quizzes[q].finalized <= 1
  /\ ((\A r \in Slots : racers[r].status \notin {"idle", "skipped"})
      /\ racers[1].start = racers[2].start)
       => \E r \in Slots : racers[r].ckpt = racers[r].start

\* a getTuple that does not filter by the checkpoint_id of the config
getTupleUnfiltered(S, tid, id) ==
  IF ThreadRows(S, tid) = {} THEN {} ELSE {GetTuple(S, tid)}

\* SupabaseSaver.getTuple as the set of tuples it returns: none (undefined) or
\* one.  id = NoCheckpoint: the config has no checkpoint_id
getTuple(S, tid, id) ==
  IF id = NoCheckpoint
  THEN IF ThreadRows(S, tid) = {} THEN {} ELSE {GetTuple(S, tid)}
  ELSE {c \in ThreadRows(S, tid) : c.checkpoint_id = id}

\* the checkpoints of a thread that are the parent of no checkpoint
Leaves(S, tid) ==
  {c \in ThreadRows(S, tid) :
     \A d \in ThreadRows(S, tid) : d.parent_checkpoint_id # c.checkpoint_id}

\* thread ids a client may ask for: those of jobs, and those a creation would
\* take now
KnownThreadIds == Threads(store) \cup {NewThreadId(u, now) : u \in UserIds}

NoLimit == 0 - 1

\* the limits and cursors a caller of list passes
Limits == {NoLimit} \cup 0..MaxLimit
Cursors(S, tid) == {NoCheckpoint} \cup 1..(Cardinality(ThreadRows(S, tid)) + 1)

\* SupabaseSaver.list(config, {before, limit}): the job's rows by
\* checkpoint_id descending, .lt(before) if (before), .limit(limit) if (limit)
list(S, tid, before, limit) ==
  LET rows == SelectSeq(List(S, tid),
                        LAMBDA c : before = NoCheckpoint \/ c.checkpoint_id < before)
  IN IF limit = NoLimit \/ limit = 0 \/ limit >= Len(rows) THEN rows
     ELSE SubSeq(rows, 1, limit)

\* the pages a caller gets who calls list again with before set to the last
\* id of the page before, until a page is empty
RECURSIVE Pages(_, _, _, _)
Pages(S, tid, before, limit) ==
  LET page == list(S, tid, before, limit)
  IN IF page = <<>> THEN <<>>
     ELSE page \o Pages(S, tid, page[Len(page)].checkpoint_id, limit)

\* C25: list yields only the job's checkpoints, by strictly descending
\* checkpoint_id, only those below before when before is given and at most
\* limit of them when limit is given; paging with before set to the last id
\* of the page before enumerates every checkpoint of the job exactly once.
C25_ListPages ==
  \A tid \in KnownThreadIds :
    /\ \A before \in Cursors(store, tid), limit \in Limits :
         LET page == list(store, tid, before, limit)
         IN /\ \A i \in DOMAIN page : page[i] \in ThreadRows(store, tid)
            /\ \A i \in DOMAIN page :
                 i > 1 => page[i].checkpoint_id < page[i - 1].checkpoint_id
            /\ before # NoCheckpoint =>
                 \A i \in DOMAIN page : page[i].checkpoint_id < before
            /\ limit # NoLimit => Len(page) <= limit
    /\ \A limit \in Limits :
         LET all == Pages(store, tid, NoCheckpoint, limit)
         IN /\ {all[i] : i \in DOMAIN all} = ThreadRows(store, tid)
            /\ Len(all) = Cardinality(ThreadRows(store, tid))

\* an invocation that resumed job t with a payload wait_node accepted: only
\* such a resume goes from wait_node to finalize_quiz with a generated_quiz
\* the job did not have before
Delivered(t) ==
  /\ t \in DOMAIN runs
  /\ runs[t].kind = "resume"
  /\ runs[t].before.generated_quiz = None
  /\ runs[t].values.generated_quiz # None
  /\ runs[t].node \in {"finalize_quiz", END}

\* the quiz rows of job t
RowsOfJob(Q, t) == {q \in DOMAIN Q : Q[q].thread_id = t}

Tick ==
  /\ now < MaxClock
  /\ now' = now + 1
  /\ UNCHANGED <<store, quizzes, runs, req, nent, lastResp, reported, dispatched, faults,
                 puts, racers, client>>

\* threadId === 'new_quiz': the id is built from user.id and Date.now(), and
\* app.invoke(initialState, config) writes its input checkpoint on that thread
CreateAt(r, caller, d) ==
  /\ racers[r].status = "idle"
  /\ SchemaValid(d)
  /\ LET tid == NewThreadId(caller, now)
         init == invokeInput(store, tid, InitialState(d, caller, tid))
         id == NewCheckpointId(store, tid)
         parent == IF ThreadRows(store, tid) = {} THEN NoCheckpoint
                   ELSE GetTuple(store, tid).checkpoint_id
     IN /\ store' = Put(store, [thread_id |-> tid, checkpoint_id |-> id,
                                parent_checkpoint_id |-> parent,
                                values |-> init, next |-> "fetch_words"])
        /\ racers' = [racers EXCEPT ![r] =
             [status |-> "running", node |-> "fetch_words", values |-> init,
              start |-> parent, ckpt |-> id, resume |-> Poll, hasResume |-> FALSE]]
  /\ UNCHANGED <<quizzes, runs, req, now, nent, lastResp, reported, dispatched, faults,
                 puts, client>>

NextCreate ==
  \/ Tick
  \/ \E r \in Slots, caller \in UserIds, d \in NewQuizInputs : CreateAt(r, caller, d)

SpecCreate == Init /\ [][NextCreate]_vars

\* the creations made so far, by request slot
Created == {r \in Slots : racers[r].status # "idle"}

\* C27: two distinct creations receive distinct job ids, also when the same
\* user makes both at the same millisecond, and no creation runs on a job id
\* that already has checkpoints.
C27_DistinctJobIds ==
  /\ \A r1 \in Created, r2 \in Created :
       r1 # r2 => racers[r1].values.thread_id # racers[r2].values.thread_id
  /\ \A r \in Created : racers[r].start = NoCheckpoint

\* what the handler answers caller for thread id tid when the checkpoints
\* table holds no row of tid: getState gives a snapshot with no next node
AnswerWithout(S, caller, tid) ==
  IF ~StartsWith(tid, caller) THEN "forbidden"
  ELSE IF GetState(S \ ThreadRows(S, tid), tid).next = END THEN "completed"
  ELSE "processing"

\* C28: a caller who polls a job id owned by another identity gets the
\* response it would get if no job had that id, and a request with a missing
\* or invalid credential is rejected before a job id is examined or a job is
\* created.
C28_NoExistenceLeak ==
  /\ \A t \in lastResp.keys \cap Threads(store) :
       (lastResp.user # NoUser /\ Owner(store, t) # lastResp.user)
       => /\ lastResp.code = 200
          /\ t \in DOMAIN lastResp.entries
          /\ lastResp.entries[t] = AnswerWithout(store, lastResp.user, t)
  /\ \A r \in Slots :
       req[r].thrown = "Unauthorized"
       => /\ req[r].keys = {}
          /\ ~req[r].hasNew
          /\ req[r].i = 1
          /\ Owned(r) = {}
  /\ (lastResp.code # 0 /\ lastResp.user = NoUser)
       => /\ lastResp.code = 500
          /\ lastResp.error = "Unauthorized"
          /\ lastResp.keys = {}

\* ------------------------------------------------- a restart of the server
\* The process restarts between two requests: the invocations still in flight
\* are lost with its memory; the tables stay.  A restart that finds no
\* invocation in flight changes nothing, it is a stuttering step.
Restart ==
  /\ Sequential
  /\ runs # EmptyDelta
  /\ runs' = EmptyDelta
  /\ UNCHANGED <<store, quizzes, req, now, nent, lastResp, reported, dispatched, faults,
                 puts, racers, client>>

NextRestart == NextBatch \/ Restart
SpecRestart == Init /\ [][NextRestart]_vars

\* C29: a restart between two requests changes no later poll: a job suspended
\* at wait_node is still found suspended and is resumed there, and the
\* invocation of a poll makes the changes it makes without a restart: it
\* takes the job up at wait_node, at check_status or at finalize_quiz, it
\* inserts no quiz row and starts no dispatch.
C29_RestartChangesNoPoll ==
  [][/\ \A t \in (DOMAIN runs') \ (DOMAIN runs) :
          runs'[t].kind = "resume"
          => /\ runs'[t].node \in {"wait_node", "check_status", "finalize_quiz"}
             /\ runs'[t].values = GetState(store, t).values
     /\ \A t \in (DOMAIN runs) \cap (DOMAIN runs') :
          runs[t].kind = "resume"
          => /\ Count(dispatched', t) = Count(dispatched, t)
             /\ RowsOfJob(quizzes', t) = RowsOfJob(quizzes, t)
     /\ \A t \in Threads(store) :
          (Sequential /\ Sequential' /\ GetState(store, t).next = "wait_node")
          => GetState(store', t) = GetState(store, t)
    ]_vars

\* ------------------------------------------- one job, every kind of source
\* new_quiz values with text and URL, with a URL only, with neither, and one
\* that fails validation
RouteInputs ==
  { [word_list_ids |-> FALSE, language |-> "dutch", article_url |-> "url",
     article_text |-> "text", article_title |-> "title"],
    [word_list_ids |-> FALSE, language |-> "dutch", article_url |-> "url",
     article_text |-> None, article_title |-> None],
    [word_list_ids |-> FALSE, language |-> "dutch", article_url |-> None,
     article_text |-> None, article_title |-> None],
    [word_list_ids |-> FALSE, language |-> "dutch", article_url |-> None,
     article_text |-> "text", article_title |-> None] }

NextRoute == NextOf(RouteInputs, 1, {FALSE}, {"exercises"})
SpecRoute == Init /\ [][NextRoute]_vars

\* the node that ran between a checkpoint and its child, and the node the
\* child names as next
Steps(t) ==
  LET pairs == {p \in ThreadRows(store, t) \X ThreadRows(store, t) :
                  p[2].parent_checkpoint_id = p[1].checkpoint_id}
  IN {<<p[1].next, p[2].next>> : p \in pairs}

\* C30: after fetch_words the graph goes to trigger_worker when the input has
\* text (also when it has a URL as well), else to scrape_content when it has
\* a URL, else to pick_article and then scrape_content; a job with text runs
\* neither pick_article nor scrape_content, a job with a URL and no text does
\* not run pick_article; trigger_worker is followed by check_status and
\* check_status by wait_node.
C30_RouteByInput ==
  \A t \in Threads(store) :
    LET text == FirstState(t).article_text # None
        url == FirstState(t).article_url # None
    IN /\ \A s \in Steps(t) :
            /\ s[1] = "fetch_words"
                 => s[2] = (IF text THEN "trigger_worker"
                            ELSE IF url THEN "scrape_content" ELSE "pick_article")
            /\ s[1] = "pick_article" => s[2] = "scrape_content"
            /\ s[1] = "scrape_content" => s[2] = "trigger_worker"
            /\ s[1] = "trigger_worker" => s[2] = "check_status"
            /\ s[1] = "check_status" => s[2] = "wait_node"
       /\ text => \A c \in ThreadRows(store, t) :
                    c.next \notin {"pick_article", "scrape_content"}
       /\ (url /\ ~text) => \A c \in ThreadRows(store, t) : c.next # "pick_article"
       /\ (~url /\ ~text /\ Visited(t, "trigger_worker"))
            => (Visited(t, "pick_article") /\ Visited(t, "scrape_content"))

\* a job created with text and a URL has gone through trigger_worker and
\* check_status and stands at wait_node
C30_TextBeforeUrl ==
  \E t \in Threads(store) :
    /\ FirstState(t).article_text # None
    /\ FirstState(t).article_url # None
    /\ Visited(t, "fetch_words")
    /\ Visited(t, "trigger_worker")
    /\ Visited(t, "check_status")
    /\ GetState(store, t).next = "wait_node"

C32_OneCheckPerInvocation ==
  [][\A t \in DOMAIN runs' :
       /\ (t \in DOMAIN runs /\ AtNode(t, "check_status")
             /\ runs'[t].ckpt # runs[t].ckpt)
          => (runs'[t].node = "wait_node" /\ ~runs'[t].hasResume)
       /\ (t \in DOMAIN runs /\ AtNode(t, "wait_node") /\ ~runs[t].hasResume
             /\ runs'[t].status # runs[t].status)
          => (runs'[t].status = "suspended" /\ runs'[t].ckpt = runs[t].ckpt)
       /\ runs'[t].status # "running"
          => \/ (runs'[t].status = "suspended" /\ runs'[t].node = "wait_node")
             \/ (runs'[t].status = "done" /\ runs'[t].node = END)
    ]_vars

\* ------------------------------------- the worker's callback for a failure
\* what the worker posts to the webhook for a task whose generation failed:
\* {quiz_id, status: 'error', error_detail, user_id}, no exercises
ErrorPayload(q, u) == [kind |-> "payload", quiz_id |-> q, user_id |-> u, exercises |-> None]

\* The webhook is this function: the callback is a request that resumes the
\* job with the worker's entry (slot 1); the client polls the job (slot 2).
NextCallback ==
  \/ RaceResume(1, ErrorPayload(1, UserA))
  \/ RaceResume(2, Poll)
  \/ \E r \in Slots : RaceWaitResume(r)
  \/ \E r \in Slots : RaceWaitInterrupt(r)
  \/ \E r \in Slots : RaceCheckStatus(r)
  \/ \E r \in Slots : RaceFinalizeQuiz(r)

SpecCallback == InitRace /\ [][NextCallback]_vars

\* C33: once the worker's callback with status error has resumed the job,
\* that resume or the poll after it leaves the job with state.error set (or,
\* when a result is in the quiz row, further on its way to the end): the job
\* is not back where it stood before the callback.
C33_ErrorCallbackFails ==
  (/\ racers[1].status = "suspended"
   /\ racers[2].status = "suspended"
   /\ racers[2].start >= racers[1].ckpt)
  => \/ GetState(store, RaceThread).values.error # None
     \/ GetState(store, RaceThread).values # RaceValues(Len(RaceSteps))

\* C34: when a request has been answered, the job it created (the thread id
\* built from its caller and the clock value of the request) is an entry of
\* the response.
C34_CreatedIdReturned ==
  (lastResp.code # 0 /\ Sequential)
  => \A t \in Threads(store) :
       t = NewThreadId(lastResp.user, now - 1) => t \in DOMAIN lastResp.entries

\* C35: a poll of an id that starts with the caller's user id and has no
\* checkpoint in the store is not answered completed.
C35_UnknownIdNotCompleted ==
  \A caller \in UserIds, tid \in KnownThreadIds :
    (StartsWith(tid, caller) /\ tid \notin Threads(store))
    => AnswerWithout(store, caller, tid) # "completed"

\* --------------------------------------- a poll whose checkpoint read fails
\* getTuple: the query fails with an error other than "no rows"; the error is
\* logged and undefined is returned, so getState gives an empty snapshot and
\* the handler takes the finished branch: nothing is invoked
RaceReadFails(r) ==
  /\ racers[r].status = "idle"
  /\ faults < MaxFaults
  /\ faults' = faults + 1
  /\ racers' = [racers EXCEPT ![r].status = "skipped"]
  /\ UNCHANGED <<store, quizzes>>
  /\ RaceUnchanged

NextReadFault == NextRace \/ \E r \in Slots : RaceReadFails(r)
SpecReadFault == InitRace /\ [][NextReadFault]_vars

\* C36: a poll is answered completed without an invocation only when the
\* graph of the job has ended, also when the read of the checkpoint failed.
C36_ReadFailureNotCompleted ==
  \A r \in Slots :
    racers[r].status = "skipped" => GetState(store, RaceThread).next = END

\* ------------------------------------------------- the external worker
\* the keys of batch.requests: ids of jobs of the user
TaskIds(u) == {NewThreadId(u, k) : k \in 1..MaxJobs}

\* events the lambda is invoked with: parsed says whether the event passes
\* QuizRequestBatchSchema, sub is the subject of user_token, requests maps
\* each task id to the quiz_id of its request
WorkerEvents ==
  UNION { { [parsed |-> p, user_id |-> u, sub |-> s, requests |-> q] :
              p \in BOOLEAN, s \in UserIds,
              q \in UNION {[T -> 1..2] : T \in SUBSET TaskIds(u)} } :
          u \in UserIds }

\* verifyToken: the subject of the decoded token is the user of the batch
verifyToken(batch) == batch.sub = batch.user_id

\* the entry of one task in results; llm is the outcome of
\* structuredLLM.invoke for the task.  request_id is not sent by the graph
\* and is dropped by JSON.stringify
TaskResultBare(batch, t, llm) ==
  IF llm = "fulfilled"
  THEN [quiz_id |-> batch.requests[t], status |-> "success",
        exercises |-> "exercises", error_detail |-> None, user_id |-> NoUser]
  ELSE [quiz_id |-> batch.requests[t], status |-> "error",
        exercises |-> None, error_detail |-> "error", user_id |-> NoUser]

TaskResult(batch, t, llm) ==
  IF llm = "fulfilled"
  THEN [quiz_id |-> batch.requests[t], status |-> "success",
        exercises |-> "exercises", error_detail |-> None,
        user_id |-> batch.user_id]
  ELSE [quiz_id |-> batch.requests[t], status |-> "error",
        exercises |-> None, error_detail |-> "error",
        user_id |-> batch.user_id]

\* an invocation of the lambda handler: tasks holds the outcome of the
\* promise of each task, posts the bodies of the webhook requests sent
InitWorker ==
  /\ store = {} /\ quizzes = <<>> /\ runs = EmptyDelta
  /\ now = 1 /\ nent = 0 /\ lastResp = NoResp
  /\ reported = EmptyDelta /\ dispatched = EmptyDelta
  /\ faults = 0 /\ puts = <<>>
  /\ racers = [r \in Slots |-> IdleRacer]
  /\ client = IdleClient
  /\ \E event \in WorkerEvents :
       req = [r \in Slots |->
                IF r = 1
                THEN [pc |-> "start", batch |-> event,
                      tasks |-> [t \in DOMAIN event.requests |-> "pending"],
                      posts |-> <<>>]
                ELSE IdleReq]

\* QuizRequestBatchSchema.parse throws: logged, the handler returns
WorkerRejects(r) ==
  /\ req[r].pc = "start"
  /\ ~req[r].batch.parsed
  /\ req' = [req EXCEPT ![r].pc = "returned"]
  /\ UNCHANGED faults
  /\ UNCHANGED <<store, quizzes, runs, now, nent, lastResp, reported, dispatched,
                 puts, racers, client>>

\* verifyToken fails: the message of console.error reads the undeclared
\* name requests, a ReferenceError escapes the handler
WorkerForbidden(r) ==
  /\ req[r].pc = "start"
  /\ req[r].batch.parsed
  /\ ~verifyToken(req[r].batch)
  /\ req' = [req EXCEPT ![r].pc = "threw"]
  /\ UNCHANGED faults
  /\ UNCHANGED <<store, quizzes, runs, now, nent, lastResp, reported, dispatched,
                 puts, racers, client>>

\* the map over Object.entries(batch.requests) starts every task
WorkerStarts(r) ==
  /\ req[r].pc = "start"
  /\ req[r].batch.parsed
  /\ verifyToken(req[r].batch)
  /\ req' = [req EXCEPT ![r].pc = "tasks"]
  /\ UNCHANGED faults
  /\ UNCHANGED <<store, quizzes, runs, now, nent, lastResp, reported, dispatched,
                 puts, racers, client>>

\* structuredLLM.invoke of task t returns, or throws into the catch of the task
TaskSettles(r, t) ==
  /\ req[r].pc = "tasks"
  /\ t \in DOMAIN req[r].tasks
  /\ req[r].tasks[t] = "pending"
  /\ \E ok \in BOOLEAN :
       /\ ok \/ faults < MaxFaults
       /\ faults' = IF ok THEN faults ELSE faults + 1
       /\ req' = [req EXCEPT ![r].tasks[t] = IF ok THEN "fulfilled" ELSE "rejected"]
  /\ UNCHANGED <<store, quizzes, runs, now, nent, lastResp, reported, dispatched,
                 puts, racers, client>>

\* Promise.all resolved, Object.fromEntries, then the fetch of the webhook
\* with JSON.stringify(results); delivered: the fetch did not throw
SendWebhook(r) ==
  /\ req[r].pc = "tasks"
  /\ \A t \in DOMAIN req[r].tasks : req[r].tasks[t] # "pending"
  /\ \E delivered \in BOOLEAN :
       req' = [req EXCEPT
         ![r].pc = IF delivered THEN "returned" ELSE "threw",
         ![r].posts = Append(@,
            [t \in DOMAIN req[r].tasks |->
               TaskResult(req[r].batch, t, req[r].tasks[t])])]
  /\ UNCHANGED faults
  /\ UNCHANGED <<store, quizzes, runs, now, nent, lastResp, reported, dispatched,
                 puts, racers, client>>

NextWorker ==
  \E r \in Slots :
    \/ WorkerRejects(r)
    \/ WorkerForbidden(r)
    \/ WorkerStarts(r)
    \/ \E u \in UserIds : \E t \in TaskIds(u) : TaskSettles(r, t)
    \/ SendWebhook(r)

SpecWorker == InitWorker /\ [][NextWorker]_vars

\* C37: for a valid, authorised batch the worker sends one callback, after
\* all tasks settled; its body has one entry per task id of the batch, each
\* with the quiz_id of the task, the user_id of the batch and the status of
\* the task: error exactly for the tasks whose generation failed, success
\* with the exercises for the others.  No other batch gets a callback.
C37_OneCallbackPerBatch ==
  \A r \in Slots :
    req[r].pc # "idle" =>
      LET w == req[r] IN
        /\ Len(w.posts) <= 1
        /\ (w.pc \in {"start", "tasks"}) => w.posts = <<>>
        /\ ~(w.batch.parsed /\ verifyToken(w.batch)) => w.posts = <<>>
        /\ (w.pc \in {"returned", "threw"} /\ w.batch.parsed /\ verifyToken(w.batch))
             => /\ Len(w.posts) = 1
                /\ DOMAIN w.posts[1] = DOMAIN w.batch.requests
                /\ \A t \in DOMAIN w.batch.requests :
                     /\ w.posts[1][t].quiz_id = w.batch.requests[t]
                     /\ w.posts[1][t].user_id = w.batch.user_id
                     /\ w.posts[1][t].status =
                          (IF w.tasks[t] = "rejected" THEN "error" ELSE "success")
                     /\ (w.tasks[t] = "fulfilled")
                          <=> (w.posts[1][t].exercises # None)

\* a callback with an error entry next to a success entry
C37_MixedBatchSent ==
  \E r \in Slots :
    /\ req[r].pc = "returned"
    /\ Len(req[r].posts) = 1
    /\ \E t, u \in DOMAIN req[r].posts[1] :
         /\ req[r].posts[1][t].status = "error"
         /\ req[r].posts[1][u].status = "success"

\* -------------------------------------------------- the polling client
\* the property names "thread_ids" and "data": strings that no user id starts
ThreadIdsKey == <<2>>
DataKey == <<3>>

\* the job ids a client may come to track: those of one user
ClientJobs == {NewThreadId(UserA, k) : k \in 1..MaxEntries}

\* trackJob: the updater of setThreads
trackJob(prev, threadId) ==
  IF threadId \in Range(prev) THEN prev ELSE Append(prev, threadId)

\* a pollJobs that does not look at isPollingRef
pollJobsUnguarded(c) ==
  [c EXCEPT !.isPolling = TRUE,
            !.inFlight = Append(@, [k \in {ThreadIdsKey} |-> c.threads])]

\* pollJobs up to the await: nothing while a poll is in flight, else the
\* flag is set and the request is sent with body {thread_ids: threads}
pollJobs(c) ==
  IF c.isPolling THEN c
  ELSE [c EXCEPT !.isPolling = TRUE,
                 !.inFlight = Append(@, [k \in {ThreadIdsKey} |-> c.threads])]

\* the effect on threads and router, run after threads changed: the cleanup
\* clears the interval; with threads it sets a new one and calls pollJobs
Effect(c) ==
  IF c.threads = <<>> THEN [c EXCEPT !.interval = FALSE]
  ELSE pollJobs([c EXCEPT !.interval = TRUE])

\* handleGenerateQuiz after the creation was answered: the response to a
\* body {new_quiz} has one entry, tracked unless its status is completed;
\* a list that trackJob changed is rendered
handleGenerateQuiz(c, thread_id, status) ==
  IF status = "completed" \/ trackJob(c.threads, thread_id) = c.threads THEN c
  ELSE Effect([c EXCEPT !.threads = trackJob(@, thread_id)])

\* a filter that drops every job
filterAll(prev, ids) == <<>>

\* prev.filter((id) => !finishedIds.includes(id))
RECURSIVE filterOut(_, _)
filterOut(prev, ids) ==
  IF prev = <<>> THEN <<>>
  ELSE (IF Head(prev) \in ids THEN <<>> ELSE <<Head(prev)>>) \o filterOut(Tail(prev), ids)

\* what functions.invoke may hand to a client: an error, a response of the
\* server, or an object whose data property lists items as PollResponseItem
\* declares them
ClientResponses ==
  {[error |-> TRUE, data |-> EmptyDelta],
   [error |-> FALSE, data |-> [k \in {ThreadIdsKey} |-> "forbidden"]]}
  \cup {[error |-> FALSE, data |-> [k \in {DataKey} |-> items]] :
          items \in UNION {[T -> {"processing", "completed", "error"}] :
                     T \in {U \in SUBSET ClientJobs : Cardinality(U) <= MaxJobs}}}

\* a creation is answered and handleGenerateQuiz tracks its jobs
GenerateReturns(thread_id, status) ==
  /\ client' = handleGenerateQuiz(client, thread_id, status)
  /\ UNCHANGED <<store, quizzes, runs, req, now, nent, lastResp, reported, dispatched,
                 faults, puts, racers>>

\* the interval of the current effect fires
IntervalTick ==
  /\ client.interval
  /\ client' = pollJobs(client)
  /\ UNCHANGED <<store, quizzes, runs, req, now, nent, lastResp, reported, dispatched,
                 faults, puts, racers>>

\* pollJobs from the await on, answered with resp: an error, or data whose
\* data property is not iterable, throws into the catch; else the finished
\* ids are removed and a completed one refreshes the router; the flag is
\* cleared in the finally, then a changed list is rendered.  results maps
\* the thread_id of each item of data.data to its status
pollReturned(c, resp) ==
  LET d == [c EXCEPT !.inFlight = Tail(@), !.isPolling = FALSE]
  IN IF resp.error \/ DataKey \notin DOMAIN resp.data THEN d
     ELSE LET results == resp.data[DataKey]
              finishedIds == {t \in DOMAIN results : results[t] \in {"completed", "error"}}
              hasSuccess == \E t \in DOMAIN results : results[t] = "completed"
          IN IF finishedIds = {} THEN d
             ELSE Effect([d EXCEPT !.threads = filterOut(@, finishedIds),
                                   !.refreshed = @ \/ hasSuccess])

\* the await of the poll in flight returns resp
PollReturns(resp) ==
  /\ client.inFlight # <<>>
  /\ client' = pollReturned(client, resp)
  /\ UNCHANGED <<store, quizzes, runs, req, now, nent, lastResp, reported, dispatched,
                 faults, puts, racers>>

NextClient ==
  \/ \E t \in ClientJobs, status \in {"processing", "completed", "error"} :
       GenerateReturns(t, status)
  \/ IntervalTick
  \/ \E resp \in ClientResponses : PollReturns(resp)

SpecClient == Init /\ [][NextClient]_vars

\* C38: at most one poll request is in flight; the flag is set exactly
\* while one is; a step taken while a poll is in flight that does not
\* answer it sends no request; the step that answers a poll clears the flag
\* before anything else is sent, whatever the answer.
C38_OnePollInFlight ==
  [][/\ Len(client.inFlight) <= 1 /\ Len(client'.inFlight) <= 1
     /\ client.isPolling <=> (client.inFlight # <<>>)
     /\ (client.isPolling /\ client'.inFlight # client.inFlight)
          => \/ ~client'.isPolling /\ client'.inFlight = <<>>
             \/ /\ client'.isPolling
                /\ client'.inFlight = <<[k \in {ThreadIdsKey} |-> client'.threads]>>
     /\ \A resp \in {r \in ClientResponses : DataKey \notin DOMAIN r.data} :
          PollReturns(resp) => ~client'.isPolling /\ client'.inFlight = <<>>]_vars

\* a tick found a poll in flight and passed, and that poll then failed
C38_FailedPollClearedFlag ==
  /\ client.threads # <<>>
  /\ ~client.isPolling
  /\ client.inFlight = <<>>
  /\ client.interval

ServerAnswers ==
  /\ client.inFlight # <<>>
  /\ \A k \in DOMAIN Head(client.inFlight) : ~StartsWith(k, UserA)
  /\ PollReturns([error |-> FALSE,
                  data |-> [k \in DOMAIN Head(client.inFlight) |-> "forbidden"]])

\* one job of UserA whose result has landed: the answer to its creation
\* reaches the client, the worker calls back with the result, the client
\* polls and the poll is answered or fails
NextProtocol ==
  \/ client = IdleClient /\ GenerateReturns(RaceThread, lastResp.entries[RaceThread])
  \/ IntervalTick
  \/ ServerAnswers
  \/ PollReturns([error |-> TRUE, data |-> EmptyDelta])
  \/ \E r \in Slots : RaceResume(r, Payload(1, UserA))
  \/ \E r \in Slots : RaceFinished(r)
  \/ \E r \in Slots : RaceWaitResume(r)
  \/ \E r \in Slots : RaceFinalizeQuiz(r)

SpecProtocol == RaceState(TRUE) /\ [][NextProtocol]_vars

\* C40: when the server answers a poll of the client, the jobs the client
\* tracked that have ended on the server are tracked no longer.
C40_EndedJobUntracked ==
  [][ServerAnswers
       => \A t \in Range(client.threads) :
            (GetState(store, t).next = END \/ GetState(store, t).values.error # None)
            => t \notin Range(client'.threads)]_vars

====
